---- MODULE Spec2Model ----
(***************************************************************************)
(* A model of bikedata.py: the geodesy functions (earth_radius, distance,  *)
(* bearing, displacement), TrackingPoint construction from a <trkpt>       *)
(* record, and the BikeRide object (construction, calculate_path,          *)
(* get_path, __repr__).                                                    *)
(*                                                                         *)
(* Numbers.  The program computes in float64; the model computes in        *)
(* fixed point: a real x is the integer x * One, products are rescaled by  *)
(* FxMul (floor), and sin, arcsin and arctan2 are evaluated from a table   *)
(* of sines at every pi/12 with linear interpolation between the knots.    *)
(* Latitudes and longitudes are whole degrees, lengths are whole metres.   *)
(* sqrt and arcsin are defined on their real domains only (numpy returns   *)
(* nan outside them): TLC stops if the model ever leaves the domain.       *)
(***************************************************************************)
EXTENDS Integers, Sequences, FiniteSets, TLC

VARIABLES
    \* ---- BikeRide(gpx_file) ----
    file,             \* what open(gpx_file) meets: "ok", "missing", "unreadable"
    raw,              \* raw_data.find_all('trkpt'): the <trkpt> records in file order
    pc,               \* position in BikeRide.__init__ / the method running
    exc,              \* the exception that left __init__ ("none" while none)
    attrs,            \* names of the attributes set on the BikeRide object
    tracking_points,  \* self.tracking_points
    built,            \* the list that list(map(TrackingPoint, ...)) is building
    parsed,           \* number of TrackingPoint.__init__ calls made so far
    start,            \* self.start
    end,              \* self.end
    num_points,       \* self.num_points
    path,             \* self.path
    positions,        \* calculate_path: local positions
    current_position, \* calculate_path: local current_position
    index,            \* calculate_path: the loop variable
    caller,           \* who called calculate_path: "init" or "user"
    ret,              \* value returned by the last method call on the object
    \* ---- TrackingPoint(trkpt) on its own ----
    tp_in,            \* the <trkpt> record given
    tp_out,           \* the outcome of TrackingPoint.__init__
    \* ---- the geodesy functions on their own ----
    g1, g2,           \* two TrackingPoints
    gres              \* the last results computed for (g1, g2) and (g2, g1)

vars == <<file, raw, pc, exc, attrs, tracking_points, built, parsed, start, end,
          num_points, path, positions, current_position, index, caller, ret,
          tp_in, tp_out, g1, g2, gres>>

rideVars == <<file, raw, pc, exc, attrs, tracking_points, built, parsed, start,
              end, num_points, path, positions, current_position, index, caller,
              ret>>
pointVars == <<tp_in, tp_out>>
geoVars == <<g1, g2, gres>>

(***************************************************************************)
(* Fixed-point arithmetic standing for float64                             *)
(***************************************************************************)
\* the fixed-point unit: the integer v stands for the real v / One
One == 10000
\* numpy.pi in fixed point
Pi == 31416
\* sin(k * pi/12) for k = 0..6, in fixed point
SinKnots == <<0, 2588, 5000, 7071, 8660, 9659, 10000>>
KnotStep == Pi \div 12

Abs(x) == IF x < 0 THEN -x ELSE x

\* floor(a * b / c) for c > 0, without forming a * b
FxMulDiv(a, b, c) == (a \div c) * b + ((a % c) * b) \div c
\* the float product a * b of two fixed-point numbers
FxMul(a, b) == FxMulDiv(a, b, One)

\* sin on [0, pi/2]
SinQ(x) ==
    LET k == x \div KnotStep
        f == x % KnotStep
    IN  IF k >= 6 THEN One
        ELSE SinKnots[k + 1] + ((SinKnots[k + 2] - SinKnots[k + 1]) * f) \div KnotStep

SinPos(x) ==
    LET r == x % (2 * Pi)
    IN  IF r <= Pi \div 2 THEN SinQ(r)
        ELSE IF r <= Pi THEN SinQ(Pi - r)
        ELSE IF r <= Pi + Pi \div 2 THEN -SinQ(r - Pi)
        ELSE -SinQ(2 * Pi - r)

\* numpy.sin
Sin(x) == IF x < 0 THEN -SinPos(-x) ELSE SinPos(x)
\* numpy.cos
Cos(x) == Sin(x + Pi \div 2)

RECURSIVE ISqrtBetween(_, _, _)
ISqrtBetween(n, lo, hi) ==
    IF hi - lo <= 1 THEN lo
    ELSE LET mid == (lo + hi) \div 2
         IN  IF mid * mid <= n THEN ISqrtBetween(n, mid, hi)
             ELSE ISqrtBetween(n, lo, mid)
\* floor of the square root of a natural number below 2^31
ISqrt(n) == ISqrtBetween(n, 0, 46341)

\* numpy.sqrt, on its real domain
Sqrt(x) == CASE x >= 0 -> ISqrt(x * One)

ArcSinQ(v) ==
    IF v = One THEN Pi \div 2
    ELSE LET k == CHOOSE j \in 0..5 : SinKnots[j + 1] <= v /\ v < SinKnots[j + 2]
         IN  k * KnotStep
             + ((v - SinKnots[k + 1]) * KnotStep) \div (SinKnots[k + 2] - SinKnots[k + 1])
\* numpy.arcsin, on its real domain [-1, 1]
ArcSin(v) == CASE v >= 0 /\ v <= One -> ArcSinQ(v)
               [] v < 0 /\ v >= -One -> -ArcSinQ(-v)

\* numpy.arctan2(y, x), result in (-pi, pi]; arctan2(0, 0) is 0
ArcTan2(y, x) ==
    IF x = 0 /\ y = 0 THEN 0
    ELSE LET h == ISqrt(x * x + y * y)
             ax == Abs(x)
             ay == Abs(y)
             a == ArcSin(((IF ay <= ax THEN ay ELSE ax) * One) \div h)
             theta == IF ay <= ax THEN a ELSE Pi \div 2 - a
         IN  IF x >= 0 THEN (IF y >= 0 THEN theta ELSE -theta)
             ELSE (IF y >= 0 THEN Pi - theta ELSE theta - Pi)

\* numpy.radians, from whole degrees
Radians(deg) == (deg * Pi) \div 180

(***************************************************************************)
(* TrackingPoint getters                                                   *)
(***************************************************************************)
get_latitude(p, radians) == IF radians THEN Radians(p.latitude) ELSE p.latitude
get_longitude(p, radians) == IF radians THEN Radians(p.longitude) ELSE p.longitude
get_hr(p) == p.hr_bpm
get_elevation(p) == p.elevation
get_time(p) == p.time

(***************************************************************************)
(* The geodesy functions                                                   *)
(***************************************************************************)
\* earth_radius(lat): km with three decimals (the integer is km * 1000)
earth_radius(lat) == 6356752 + FxMul(6378137 - 6356752, Cos(lat))

\* the argument of sqrt in distance: t1 + t2
haversine_arg(p1, p2) ==
    LET lat_1 == get_latitude(p1, TRUE)
        lat_2 == get_latitude(p2, TRUE)
        lon_1 == get_longitude(p1, TRUE)
        lon_2 == get_longitude(p2, TRUE)
        s1 == Sin((lat_2 - lat_1) \div 2)
        s2 == Sin((lon_2 - lon_1) \div 2)
        t1 == FxMul(s1, s1)
        t2 == FxMul(FxMul(Cos(lat_1), Cos(lat_2)), FxMul(s2, s2))
    IN  t1 + t2

\* distance with a fault: the Earth's radius taken at the longitude of p1
distance_radius_at_longitude(p1, p2) ==
    LET R_E == FxMulDiv(earth_radius(get_longitude(p1, TRUE)), 1000, 1000)
    IN  2 * FxMul(R_E, ArcSin(Sqrt(haversine_arg(p1, p2))))

\* distance with a fault: the latitudes added instead of subtracted in t1
distance_lat_sum(p1, p2) ==
    LET lat_1 == get_latitude(p1, TRUE)
        lat_2 == get_latitude(p2, TRUE)
        lon_1 == get_longitude(p1, TRUE)
        lon_2 == get_longitude(p2, TRUE)
        R_E == FxMulDiv(earth_radius(lat_1), 1000, 1000)
        s1 == Sin((lat_2 + lat_1) \div 2)
        s2 == Sin((lon_2 - lon_1) \div 2)
        t1 == FxMul(s1, s1)
        t2 == FxMul(FxMul(Cos(lat_1), Cos(lat_2)), FxMul(s2, s2))
    IN  2 * FxMul(R_E, ArcSin(Sqrt(t1 + t2)))

\* distance(p1, p2) in metres; R_E is earth_radius at p1's latitude, * 1000
distance(p1, p2) ==
    LET lat_1 == get_latitude(p1, TRUE)
        R_E == FxMulDiv(earth_radius(lat_1), 1000, 1000)
    IN  2 * FxMul(R_E, ArcSin(Sqrt(haversine_arg(p1, p2))))

\* bearing(p1, p2) in radians
bearing(p1, p2) ==
    LET lat_1 == get_latitude(p1, TRUE)
        lat_2 == get_latitude(p2, TRUE)
        lon_1 == get_longitude(p1, TRUE)
        lon_2 == get_longitude(p2, TRUE)
        t1 == FxMul(Cos(lat_1), Sin(lat_2))
        t2 == FxMul(FxMul(Sin(lat_1), Cos(lat_2)), Cos(lon_2 - lon_1))
        f1 == t1 - t2
        f2 == FxMul(Sin(lon_2 - lon_1), Cos(lat_2))
    IN  ArcTan2(f2, f1)

\* displacement(p1, p2): <<metres East, metres North>>
displacement(p1, p2) ==
    LET dir == bearing(p1, p2)
        dist == distance(p1, p2)
    IN  <<FxMul(dist, Sin(dir)), FxMul(dist, Cos(dir))>>


(***************************************************************************)
(* Text: a string is the sequence of its characters                        *)
(***************************************************************************)
Digits == {"0", "1", "2", "3", "4", "5", "6", "7", "8", "9"}
IsDigit(c) == c \in Digits
DigitVal(c) ==
    CASE c = "0" -> 0 [] c = "1" -> 1 [] c = "2" -> 2 [] c = "3" -> 3 [] c = "4" -> 4
      [] c = "5" -> 5 [] c = "6" -> 6 [] c = "7" -> 7 [] c = "8" -> 8 [] c = "9" -> 9
IsSpace(c) == c \in {" ", "\n", "\t"}

RECURSIVE LStrip(_)
LStrip(s) == IF s # <<>> /\ IsSpace(Head(s)) THEN LStrip(Tail(s)) ELSE s
RECURSIVE RStrip(_)
RStrip(s) == IF s # <<>> /\ IsSpace(s[Len(s)]) THEN RStrip(SubSeq(s, 1, Len(s) - 1)) ELSE s

RECURSIVE DigitsValue(_, _)
DigitsValue(s, acc) ==
    IF s = <<>> THEN acc
    ELSE IF Head(s) = "_" THEN DigitsValue(Tail(s), acc)
    ELSE DigitsValue(Tail(s), 10 * acc + DigitVal(Head(s)))

\* int(text): surrounding whitespace, an optional sign, then decimal digits
\* (single underscores between digits allowed); anything else is a ValueError
int(text) ==
    LET t == RStrip(LStrip(text))
        signed == t # <<>> /\ Head(t) \in {"+", "-"}
        body == IF signed THEN Tail(t) ELSE t
        wellFormed ==
            /\ body # <<>>
            /\ IsDigit(body[1]) /\ IsDigit(body[Len(body)])
            /\ \A i \in 1..Len(body) : IsDigit(body[i]) \/ body[i] = "_"
            /\ \A i \in 1..(Len(body) - 1) : ~(body[i] = "_" /\ body[i + 1] = "_")
        magnitude == DigitsValue(body, 0)
    IN  IF wellFormed
        THEN [ok |-> TRUE, value |-> IF signed /\ Head(t) = "-" THEN -magnitude ELSE magnitude]
        ELSE [ok |-> FALSE, value |-> 0]

(***************************************************************************)
(* datetime.strptime(text, "%Y-%m-%dT%H:%M:%SZ")                           *)
(* The format compiles to the regular expression                           *)
(*   \d\d\d\d - (1[0-2]|0[1-9]|[1-9]) - (3[01]|[12]\d|0[1-9]|[1-9]| [1-9])  *)
(*   T (2[0-3]|[01]\d|\d) : ([0-5]\d|\d) : (6[01]|[0-5]\d|\d) Z             *)
(* matched ignoring case against the whole text; the fields then have to   *)
(* make a valid datetime.                                                  *)
(***************************************************************************)
Upper(c) == CASE c = "t" -> "T" [] c = "z" -> "Z" [] OTHER -> c
Lit(s, pos, c) == pos <= Len(s) /\ Upper(s[pos]) = c

\* one numeric directive at pos: the two-digit alternatives, then the one-digit
\* one, then (for %d) a space and a digit
Field(s, pos, two, one, spaceOk) ==
    IF pos + 1 <= Len(s) /\ IsDigit(s[pos]) /\ IsDigit(s[pos + 1])
       /\ (10 * DigitVal(s[pos]) + DigitVal(s[pos + 1])) \in two
    THEN [len |-> 2, val |-> 10 * DigitVal(s[pos]) + DigitVal(s[pos + 1])]
    ELSE IF pos <= Len(s) /\ IsDigit(s[pos]) /\ DigitVal(s[pos]) \in one
    THEN [len |-> 1, val |-> DigitVal(s[pos])]
    ELSE IF spaceOk /\ pos + 1 <= Len(s) /\ s[pos] = " " /\ IsDigit(s[pos + 1])
            /\ DigitVal(s[pos + 1]) \in 1..9
    THEN [len |-> 2, val |-> DigitVal(s[pos + 1])]
    ELSE [len |-> 0, val |-> 0]

IsLeap(y) == y % 4 = 0 /\ (y % 100 # 0 \/ y % 400 = 0)
DaysIn(y, m) ==
    IF m = 2 THEN (IF IsLeap(y) THEN 29 ELSE 28)
    ELSE IF m \in {4, 6, 9, 11} THEN 30 ELSE 31

NoTime == [year |-> 0, month |-> 0, day |-> 0, hour |-> 0, minute |-> 0, second |-> 0]

strptime(s) ==
    LET okY == Len(s) >= 4 /\ \A i \in 1..4 : IsDigit(s[i])
        m == Field(s, 6, 1..12, 1..9, FALSE)
        pd == 6 + m.len + 1
        d == Field(s, pd, 1..31, 1..9, TRUE)
        pH == pd + d.len + 1
        H == Field(s, pH, 0..23, 0..9, FALSE)
        pM == pH + H.len + 1
        M == Field(s, pM, 0..59, 0..9, FALSE)
        pS == pM + M.len + 1
        S == Field(s, pS, 0..61, 0..9, FALSE)
        pZ == pS + S.len
        matched ==
            /\ okY /\ Lit(s, 5, "-")
            /\ m.len > 0 /\ Lit(s, pd - 1, "-")
            /\ d.len > 0 /\ Lit(s, pH - 1, "T")
            /\ H.len > 0 /\ Lit(s, pM - 1, ":")
            /\ M.len > 0 /\ Lit(s, pS - 1, ":")
            /\ S.len > 0 /\ Lit(s, pZ, "Z")
            /\ Len(s) = pZ
        y == DigitsValue(SubSeq(s, 1, 4), 0)
    IN  IF matched /\ y >= 1 /\ d.val <= DaysIn(y, m.val) /\ S.val <= 59
        THEN [ok |-> TRUE,
              value |-> [year |-> y, month |-> m.val, day |-> d.val,
                         hour |-> H.val, minute |-> M.val, second |-> S.val]]
        ELSE [ok |-> FALSE, value |-> NoTime]

(***************************************************************************)
(* TrackingPoint.__init__(trkpt)                                           *)
(* A <trkpt> record: lat, lon (whole degrees) and ele (whole metres) are   *)
(* well-formed numbers; hr and time are child tags that may be missing     *)
(* (BeautifulSoup then gives None, and .text on None is an AttributeError) *)
(* and otherwise hold a text.                                              *)
(***************************************************************************)
NoPoint == [latitude |-> 0, longitude |-> 0, elevation |-> 0, hr_bpm |-> 0, time |-> NoTime]

\* TrackingPoint.__init__ with a fault: a timestamp that does not parse is
\* swallowed like a heart rate that does not parse
TrackingPointInitTimeFallback(trkpt) ==
    IF ~trkpt.hr.present \/ ~trkpt.time.present
    THEN [ok |-> FALSE, exc |-> "AttributeError", point |-> NoPoint]
    ELSE LET hr == int(trkpt.hr.text)
             t == strptime(trkpt.time.text)
         IN  [ok |-> TRUE, exc |-> "none",
              point |-> [latitude |-> trkpt.lat, longitude |-> trkpt.lon,
                         elevation |-> trkpt.ele,
                         hr_bpm |-> IF hr.ok THEN hr.value ELSE -1,
                         time |-> t.value]]

TrackingPointInit(trkpt) ==
    IF ~trkpt.hr.present
    THEN \* line 96: trkpt.extensions.TrackPointExtension.hr is None
         [ok |-> FALSE, exc |-> "AttributeError", point |-> NoPoint]
    ELSE LET hr == int(trkpt.hr.text)
             hr_bpm == IF hr.ok THEN hr.value ELSE -1
         IN  IF ~trkpt.time.present
             THEN \* line 104: trkpt.time is None
                  [ok |-> FALSE, exc |-> "AttributeError", point |-> NoPoint]
             ELSE LET t == strptime(trkpt.time.text)
                  IN  IF ~t.ok
                      THEN [ok |-> FALSE, exc |-> "ValueError", point |-> NoPoint]
                      ELSE [ok |-> TRUE, exc |-> "none",
                            point |-> [latitude |-> trkpt.lat,
                                       longitude |-> trkpt.lon,
                                       elevation |-> trkpt.ele,
                                       hr_bpm |-> hr_bpm,
                                       time |-> t.value]]

(***************************************************************************)
(* Inputs                                                                  *)
(***************************************************************************)
T_exact == <<"2", "0", "2", "0", "-", "0", "1", "-", "0", "2", "T", "0", "3", ":", "0", "4", ":", "0", "5", "Z">>
T_exact_late == <<"2", "0", "2", "1", "-", "1", "2", "-", "3", "1", "T", "2", "3", ":", "5", "9", ":", "5", "9", "Z">>
T_unpadded == <<"2", "0", "2", "0", "-", "1", "-", "2", "T", "3", ":", "4", ":", "5", "Z">>
T_lower == <<"2", "0", "2", "0", "-", "0", "1", "-", "0", "2", "t", "0", "3", ":", "0", "4", ":", "0", "5", "z">>
T_no_zone == <<"2", "0", "2", "0", "-", "0", "1", "-", "0", "2", "T", "0", "3", ":", "0", "4", ":", "0", "5">>
T_fraction == <<"2", "0", "2", "0", "-", "0", "1", "-", "0", "2", "T", "0", "3", ":", "0", "4", ":", "0", "5", ".", "5", "Z">>
T_space == <<"2", "0", "2", "0", "-", "0", "1", "-", "0", "2", " ", "0", "3", ":", "0", "4", ":", "0", "5", "Z">>
T_month13 == <<"2", "0", "2", "0", "-", "1", "3", "-", "0", "2", "T", "0", "3", ":", "0", "4", ":", "0", "5", "Z">>
T_feb29 == <<"2", "0", "2", "1", "-", "0", "2", "-", "2", "9", "T", "0", "3", ":", "0", "4", ":", "0", "5", "Z">>
T_sec60 == <<"2", "0", "2", "0", "-", "0", "1", "-", "0", "2", "T", "0", "3", ":", "0", "4", ":", "6", "0", "Z">>

Text(t) == [present |-> TRUE, text |-> t]
Absent == [present |-> FALSE, text |-> <<>>]

H_72 == <<"7", "2">>
H_empty == <<>>
H_word == <<"a", "b", "c">>
H_decimal == <<"7", "2", ".", "5">>
H_padded == <<" ", "7", "2", "\n">>
H_negative == <<"-", "5">>
H_underscore == <<"1", "_", "5", "0">>

Trkpt(lat, lon, hr, time) == [lat |-> lat, lon |-> lon, ele |-> 100, hr |-> hr, time |-> time]


\* the <trkpt> records a track file is made of: four places with a heart rate
\* and a well-formed timestamp, and four records at the first place whose hr
\* tag is missing or whose texts are unusual
RawRecords ==
    { Trkpt(0, 0, Text(H_72), Text(T_exact)),
      Trkpt(0, 30, Text(H_72), Text(T_exact)),
      Trkpt(30, 30, Text(H_72), Text(T_exact_late)),
      Trkpt(60, -30, Text(H_72), Text(T_exact_late)),
      Trkpt(0, 0, Absent, Text(T_exact)),
      Trkpt(0, 0, Text(H_empty), Text(T_exact)),
      Trkpt(0, 0, Text(H_72), Text(T_no_zone)),
      Trkpt(0, 0, Text(H_72), Text(T_unpadded)) }

\* the longest track modelled
MaxPoints == 3

Tracks == UNION { [1..n -> RawRecords] : n \in 0..MaxPoints }

\* the <trkpt> records given to TrackingPoint on its own
HrSamples == { Absent, Text(H_72), Text(H_empty), Text(H_word), Text(H_decimal),
               Text(H_padded), Text(H_negative), Text(H_underscore) }
TimeSamples == { Absent, Text(T_exact), Text(T_exact_late), Text(T_unpadded),
                 Text(T_lower), Text(T_no_zone), Text(T_fraction), Text(T_space),
                 Text(T_month13), Text(T_feb29), Text(T_sec60), Text(<<>>) }
PointSamples == { Trkpt(30, -60, hr, t) : hr \in HrSamples, t \in TimeSamples }

\* the TrackingPoints given to the geodesy functions on their own
GeoLatitudes == {-90, -60, -30, 0, 30, 60, 90}
GeoLongitudes == {-180, -30, 0, 30, 60, 180}
GeoPoint(lat, lon) ==
    [latitude |-> lat, longitude |-> lon, elevation |-> 100, hr_bpm |-> 72,
     time |-> strptime(T_exact).value]
GeoPoints == { GeoPoint(lat, lon) : lat \in GeoLatitudes, lon \in GeoLongitudes }

(***************************************************************************)
(* BikeRide                                                                *)
(***************************************************************************)
Origin == <<0, 0>>
VecAdd(a, b) == <<a[1] + b[1], a[2] + b[2]>>

Unset == [kind |-> "unset", items |-> <<>>]
NoRet == [kind |-> "none", value |-> <<>>, start |-> NoPoint, end |-> NoPoint,
          num_points |-> 0]

\* a row of the positions array: numpy stores the numbers themselves (alias is
\* FALSE); a row that were a reference to current_position would have alias TRUE
PositionAt(k) == IF positions[k].alias THEN current_position ELSE positions[k].val

RideInit ==
    /\ file \in {"ok", "missing", "unreadable"}
    /\ raw \in (IF file = "ok" THEN Tracks ELSE {<<>>})
    /\ pc = "init"
    /\ exc = "none"
    /\ attrs = {}
    /\ tracking_points = Unset
    /\ built = <<>>
    /\ parsed = 0
    /\ start = NoPoint
    /\ end = NoPoint
    /\ num_points = 0
    /\ path = <<>>
    /\ positions = <<>>
    /\ current_position = Origin
    /\ index = 0
    /\ caller = "init"
    /\ ret = NoRet

\* the BikeRide part of a state in which no BikeRide is being made
RideIdle ==
    /\ file = "ok" /\ raw = <<>> /\ pc = "idle" /\ exc = "none" /\ attrs = {}
    /\ tracking_points = Unset /\ built = <<>> /\ parsed = 0
    /\ start = NoPoint /\ end = NoPoint /\ num_points = 0 /\ path = <<>>
    /\ positions = <<>> /\ current_position = Origin /\ index = 0
    /\ caller = "init" /\ ret = NoRet

\* lines 146-149 with a fault: the test for None is missing
LoadBikeDataNoCheck ==
    /\ pc = "init"
    /\ IF file = "unreadable"
       THEN pc' = "raised" /\ exc' = "PermissionError"
       ELSE pc' = "map" /\ exc' = exc
    /\ UNCHANGED <<file, raw, attrs, tracking_points, built, parsed, start, end,
                   num_points, path, positions, current_position, index, caller, ret>>
    /\ UNCHANGED <<pointVars, geoVars>>

\* lines 146-149 with load_bike_data (165-175): open() of a missing file raises
\* FileNotFoundError, which load_bike_data turns into None and __init__ into a
\* FileNotFoundError of its own; any other error of open() is not caught
LoadBikeData ==
    /\ pc = "init"
    /\ IF file = "ok"
       THEN pc' = "map" /\ exc' = exc
       ELSE /\ pc' = "raised"
            /\ exc' = IF file = "missing" THEN "FileNotFoundError" ELSE "PermissionError"
    /\ UNCHANGED <<file, raw, attrs, tracking_points, built, parsed, start, end,
                   num_points, path, positions, current_position, index, caller, ret>>
    /\ UNCHANGED <<pointVars, geoVars>>

\* line 151: self.tracking_points = map(...), a lazy iterator: nothing is parsed
MapPoints ==
    /\ pc = "map"
    /\ tracking_points' = [kind |-> "map", items |-> <<>>]
    /\ attrs' = attrs \cup {"tracking_points"}
    /\ pc' = "list"
    /\ UNCHANGED <<file, raw, exc, built, parsed, start, end, num_points, path,
                   positions, current_position, index, caller, ret>>
    /\ UNCHANGED <<pointVars, geoVars>>

\* line 153, list(...): the next TrackingPoint is made; its exception leaves __init__
ListNext ==
    /\ pc = "list"
    /\ Len(built) < Len(raw)
    /\ LET r == TrackingPointInit(raw[Len(built) + 1])
       IN  IF r.ok
           THEN built' = Append(built, r.point) /\ pc' = pc /\ exc' = exc
           ELSE built' = built /\ pc' = "raised" /\ exc' = r.exc
    /\ parsed' = parsed + 1
    /\ UNCHANGED <<file, raw, attrs, tracking_points, start, end, num_points, path,
                   positions, current_position, index, caller, ret>>
    /\ UNCHANGED <<pointVars, geoVars>>

\* line 153: the iterator is exhausted, self.tracking_points = np.array(list)
ListDone ==
    /\ pc = "list"
    /\ Len(built) = Len(raw)
    /\ tracking_points' = [kind |-> "array", items |-> built]
    /\ pc' = "fields"
    /\ UNCHANGED <<file, raw, exc, attrs, built, parsed, start, end, num_points, path,
                   positions, current_position, index, caller, ret>>
    /\ UNCHANGED <<pointVars, geoVars>>

\* lines 154-156: tracking_points[0] of an empty array is an IndexError
SetStartEndNum ==
    /\ pc = "fields"
    /\ IF Len(tracking_points.items) = 0
       THEN /\ pc' = "raised" /\ exc' = "IndexError"
            /\ UNCHANGED <<start, end, num_points, attrs>>
       ELSE /\ start' = tracking_points.items[1]
            /\ end' = tracking_points.items[Len(tracking_points.items)]
            /\ num_points' = Len(tracking_points.items)
            /\ attrs' = attrs \cup {"start", "end", "num_points"}
            /\ pc' = "calc_begin" /\ exc' = exc
    /\ UNCHANGED <<file, raw, tracking_points, built, parsed, path, positions,
                   current_position, index, caller, ret>>
    /\ UNCHANGED <<pointVars, geoVars>>

\* lines 183-184 with a fault: positions starts empty
CalcBeginEmpty ==
    /\ pc = "calc_begin"
    /\ positions' = <<>>
    /\ current_position' = Origin
    /\ index' = 1
    /\ pc' = "calc"
    /\ UNCHANGED <<file, raw, exc, attrs, tracking_points, built, parsed, start, end,
                   num_points, path, caller, ret>>
    /\ UNCHANGED <<pointVars, geoVars>>

\* lines 183-184 with a fault: the positions are kept in self.path as they are built
CalcBeginStoring ==
    /\ pc = "calc_begin"
    /\ positions' = <<[alias |-> FALSE, val |-> Origin]>>
    /\ current_position' = Origin
    /\ index' = 1
    /\ pc' = "calc"
    /\ path' = <<Origin>>
    /\ UNCHANGED <<file, raw, exc, attrs, tracking_points, built, parsed, start, end,
                   num_points, caller, ret>>
    /\ UNCHANGED <<pointVars, geoVars>>

\* lines 183-184
CalcBegin ==
    /\ pc = "calc_begin"
    /\ positions' = <<[alias |-> FALSE, val |-> Origin]>>
    /\ current_position' = Origin
    /\ index' = 1
    /\ pc' = "calc"
    /\ UNCHANGED <<file, raw, exc, attrs, tracking_points, built, parsed, start, end,
                   num_points, path, caller, ret>>
    /\ UNCHANGED <<pointVars, geoVars>>

\* line 189 with a fault: the two points in the other order
AdvanceSwapped(cur, previous, point) == VecAdd(cur, displacement(point, previous))
\* line 189: current_position += displacement(previous, point)
Advance(cur, previous, point) == VecAdd(cur, displacement(previous, point))

\* lines 190-192 with a fault: the row is the current_position object itself
np_append_alias(rows, cur) == Append(rows, [alias |-> TRUE, val |-> cur])
\* lines 190-192: np.append(positions, np.array([current_position]), axis = 0)
\* makes a new array holding the numbers of both
np_append(rows, cur) == Append(rows, [alias |-> FALSE, val |-> cur])

\* lines 186-192: one turn of the loop
CalcStep ==
    /\ pc = "calc"
    /\ index < Len(tracking_points.items)
    /\ LET point == tracking_points.items[index + 1]
           previous == tracking_points.items[index]
       IN  /\ current_position' = Advance(current_position, previous, point)
           /\ positions' = np_append(positions, current_position')
    /\ index' = index + 1
    /\ UNCHANGED <<file, raw, pc, exc, attrs, tracking_points, built, parsed, start,
                   end, num_points, path, caller, ret>>
    /\ UNCHANGED <<pointVars, geoVars>>

\* line 194, and line 157 when __init__ made the call
CalcReturn ==
    /\ pc = "calc"
    /\ index >= Len(tracking_points.items)
    /\ LET result == [k \in 1..Len(positions) |-> PositionAt(k)]
       IN  IF caller = "init"
           THEN path' = result /\ attrs' = attrs \cup {"path"} /\ ret' = ret
           ELSE /\ ret' = [NoRet EXCEPT !.kind = "calculate_path", !.value = result]
                /\ UNCHANGED <<path, attrs>>
    /\ pc' = "done"
    /\ positions' = <<>>
    /\ current_position' = Origin
    /\ index' = 0
    /\ UNCHANGED <<file, raw, exc, tracking_points, built, parsed, start, end,
                   num_points, caller>>
    /\ UNCHANGED <<pointVars, geoVars>>

\* a later call of calculate_path (lines 177-194) on the constructed object
CallCalculatePath ==
    /\ pc = "done"
    /\ caller' = "user"
    /\ ret' = NoRet
    /\ pc' = "calc_begin"
    /\ UNCHANGED <<file, raw, exc, attrs, tracking_points, built, parsed, start, end,
                   num_points, path, positions, current_position, index>>
    /\ UNCHANGED <<pointVars, geoVars>>

\* lines 196-197
get_path ==
    /\ pc = "done"
    /\ ret' = [NoRet EXCEPT !.kind = "get_path", !.value = path]
    /\ UNCHANGED <<file, raw, pc, exc, attrs, tracking_points, built, parsed, start,
                   end, num_points, path, positions, current_position, index, caller>>
    /\ UNCHANGED <<pointVars, geoVars>>

\* lines 159-163: __repr__ formats start, end and num_points
Repr ==
    /\ pc = "done"
    /\ ret' = [NoRet EXCEPT !.kind = "repr", !.start = start, !.end = end,
                            !.num_points = num_points]
    /\ UNCHANGED <<file, raw, pc, exc, attrs, tracking_points, built, parsed, start,
                   end, num_points, path, positions, current_position, index, caller>>
    /\ UNCHANGED <<pointVars, geoVars>>

(***************************************************************************)
(* TrackingPoint and the geodesy functions on their own                    *)
(***************************************************************************)
NoOutcome == [done |-> FALSE, ok |-> FALSE, exc |-> "none", point |-> NoPoint]
PointIdle == tp_in = Trkpt(0, 0, Absent, Absent) /\ tp_out = NoOutcome
PointInit == tp_in \in PointSamples /\ tp_out = NoOutcome

\* TrackingPoint(tp_in)
ConstructPoint ==
    /\ ~tp_out.done
    /\ LET r == TrackingPointInit(tp_in)
       IN  tp_out' = [done |-> TRUE, ok |-> r.ok, exc |-> r.exc, point |-> r.point]
    /\ UNCHANGED <<tp_in, rideVars, geoVars>>

NoResult == [op |-> "none", fwd |-> 0, back |-> 0, arg |-> 0,
             vfwd |-> Origin, vback |-> Origin]
GeoIdle == g1 = NoPoint /\ g2 = NoPoint /\ gres = NoResult
GeoInit == g1 \in GeoPoints /\ g2 \in GeoPoints /\ gres = NoResult

\* distance(g1, g2) and distance(g2, g1)
CallDistance ==
    /\ gres' = [NoResult EXCEPT !.op = "distance", !.fwd = distance(g1, g2),
                                !.back = distance(g2, g1),
                                !.arg = haversine_arg(g1, g2)]
    /\ UNCHANGED <<g1, g2, rideVars, pointVars>>

\* bearing(g1, g2) and bearing(g2, g1)
CallBearing ==
    /\ gres' = [NoResult EXCEPT !.op = "bearing", !.fwd = bearing(g1, g2),
                                !.back = bearing(g2, g1)]
    /\ UNCHANGED <<g1, g2, rideVars, pointVars>>

\* displacement(g1, g2) and displacement(g2, g1)
CallDisplacement ==
    /\ gres' = [NoResult EXCEPT !.op = "displacement", !.vfwd = displacement(g1, g2),
                                !.vback = displacement(g2, g1),
                                !.arg = haversine_arg(g1, g2)]
    /\ UNCHANGED <<g1, g2, rideVars, pointVars>>

(***************************************************************************)
(* Specifications                                                          *)
(***************************************************************************)
Init == RideInit /\ PointIdle /\ GeoIdle
Next ==
    \/ LoadBikeData
    \/ MapPoints
    \/ ListNext
    \/ ListDone
    \/ SetStartEndNum
    \/ CalcBegin
    \/ CalcStep
    \/ CalcReturn
    \/ CallCalculatePath
    \/ get_path
    \/ Repr
\* BikeRide(gpx_file), then any calls of its methods
Spec == Init /\ [][Next]_vars

InitPoint == RideIdle /\ PointInit /\ GeoIdle
NextPoint == ConstructPoint
\* TrackingPoint(trkpt) for one record
SpecPoint == InitPoint /\ [][NextPoint]_vars

InitGeo == RideIdle /\ PointIdle /\ GeoInit
NextGeo ==
    \/ CallDistance
    \/ CallBearing
    \/ CallDisplacement
\* the geodesy functions on one pair of points
SpecGeo == InitGeo /\ [][NextGeo]_vars


(***************************************************************************)
(* Properties                                                              *)
(***************************************************************************)
\* BikeRide.__init__ has returned
Constructed == "path" \in attrs
Derived == {"start", "end", "num_points", "path"}

\* C1: for every BikeRide whose construction succeeds, path has as many entries
\* as tracking_points, that number is num_points, and the first entry is (0, 0).
C1_PathLengthAndOrigin ==
    Constructed =>
        /\ Len(path) = Len(tracking_points.items)
        /\ Len(path) = num_points
        /\ path[1] = Origin
C1_Witness ==
    /\ Constructed
    /\ num_points = 3
    /\ path[2] # Origin /\ path[3] # path[2]

\* C2: calculate_path is a running sum from left to right: each entry is the
\* entry before it plus displacement(earlier point, later point).
C2_RunningSum ==
    Constructed =>
        \A i \in 2..Len(tracking_points.items) :
            /\ i <= Len(path)
            /\ path[i] = VecAdd(path[i - 1],
                                displacement(tracking_points.items[i - 1],
                                             tracking_points.items[i]))
C2_Witness ==
    /\ Constructed
    /\ Len(tracking_points.items) = 2
    /\ tracking_points.items[1].latitude # tracking_points.items[2].latitude
    /\ path = <<Origin, displacement(tracking_points.items[1], tracking_points.items[2])>>

\* C3: a BikeRide made from a file without points fails with the empty-track
\* error, not with the out-of-range access on point 0.
C3_EmptyTrackError ==
    (file = "ok" /\ raw = <<>> /\ pc = "raised") =>
        (exc = "EmptyTrackError" /\ exc # "IndexError")

\* C4: for every record (with a timestamp that parses), a heart rate that is
\* absent or not an integer gives a TrackingPoint with hr_bpm = -1 and no error,
\* and a heart rate that is an integer gives that integer.
C4_HeartRateSentinel ==
    (tp_out.done /\ tp_in.time.present /\ strptime(tp_in.time.text).ok) =>
        /\ tp_out.ok
        /\ tp_out.point.hr_bpm =
               IF tp_in.hr.present /\ int(tp_in.hr.text).ok
               THEN int(tp_in.hr.text).value
               ELSE -1

\* C5, as claimed: when the file cannot be opened, construction ends with a
\* FileNotFoundError, before any point is parsed and with no attribute set.
C5_OpenFailureIsFileNotFound ==
    (file # "ok" /\ pc # "init") =>
        (pc = "raised" /\ exc = "FileNotFoundError" /\ parsed = 0 /\ attrs = {})
\* C5, amended: when the file cannot be opened, construction ends with an
\* exception before any point is parsed and with no attribute set: a
\* FileNotFoundError when the file is missing, and open()'s own error
\* (PermissionError) when the file exists and cannot be read.
C5_OpenFailurePropagates ==
    (file # "ok" /\ pc # "init") =>
        /\ pc = "raised"
        /\ exc = (IF file = "missing" THEN "FileNotFoundError" ELSE "PermissionError")
        /\ parsed = 0
        /\ attrs = {}
C5_Witness ==
    file = "missing" /\ pc = "raised" /\ exc = "FileNotFoundError" /\ attrs = {}

\* C6, as claimed: distance(p1, p2) = distance(p2, p1) for all distinct points.
C6_DistanceSymmetric ==
    (gres.op = "distance" /\ g1 # g2) => gres.fwd = gres.back
\* C6, amended: distance(p1, p2) = distance(p2, p1) for distinct points whose
\* latitudes are equal in absolute value (the Earth's radius, taken at the
\* latitude of the first argument, is then the same both ways).
C6_DistanceSymmetricAtEqualRadius ==
    (gres.op = "distance" /\ g1 # g2 /\ Abs(g1.latitude) = Abs(g2.latitude)) =>
        gres.fwd = gres.back
C6_Witness ==
    /\ gres.op = "distance"
    /\ g1.latitude = 30 /\ g2.latitude = -30 /\ g1.longitude # g2.longitude
    /\ gres.fwd = gres.back /\ gres.fwd > 0

\* C7: for every point p with latitude in [-90, 90], distance(p, p) = 0 and
\* displacement(p, p) = (0, 0), and the argument of sqrt in distance is never
\* negative.
C7_IdenticalPoints ==
    /\ gres.op \in {"distance", "displacement"} => gres.arg >= 0
    /\ (gres.op = "distance" /\ g1 = g2) => gres.fwd = 0
    /\ (gres.op = "displacement" /\ g1 = g2) => gres.vfwd = Origin
C7_Witness ==
    /\ gres.op = "displacement"
    /\ g1 = g2 /\ g1.latitude = 60 /\ g1.longitude = -30
    /\ gres.vfwd = Origin

\* the exact format YYYY-MM-DDTHH:MM:SSZ
ExactFormat(s) ==
    /\ Len(s) = 20
    /\ \A i \in {1, 2, 3, 4, 6, 7, 9, 10, 12, 13, 15, 16, 18, 19} : IsDigit(s[i])
    /\ s[5] = "-" /\ s[8] = "-" /\ s[11] = "T" /\ s[14] = ":" /\ s[17] = ":"
    /\ s[20] = "Z"
\* nothing was derived from the records: no start, end, num_points or path
NoPartialTrack == pc = "raised" /\ exc # "none" /\ attrs \cap Derived = {}

\* C8, as claimed: a record whose timestamp is not exactly of the form
\* YYYY-MM-DDTHH:MM:SSZ makes TrackingPoint raise and the whole construction
\* fail, with no start, end, num_points or path.
C8_InexactTimestampFatal ==
    \A i \in 1..Len(raw) :
        (raw[i].time.present /\ ~ExactFormat(raw[i].time.text)) =>
            (attrs \cap Derived = {} /\ pc # "done")
\* C8, amended: a record whose timestamp strptime rejects under
\* "%Y-%m-%dT%H:%M:%SZ" makes TrackingPoint raise (a ValueError, there is no
\* fallback) and the whole construction fail, with no start, end, num_points or
\* path; strptime accepts month, day, hour, minute and second without the
\* leading zero, and t and z in lower case, and such a record is parsed.
C8_RejectedTimestampFatal ==
    \A i \in 1..parsed :
        (raw[i].time.present /\ ~strptime(raw[i].time.text).ok) =>
            /\ NoPartialTrack
            /\ raw[i].hr.present => exc = "ValueError"
            /\ Len(built) < i
C8_Witness ==
    /\ Len(raw) = 3 /\ parsed = 2 /\ Len(built) = 1
    /\ ~strptime(raw[2].time.text).ok
    /\ pc = "raised" /\ exc = "ValueError"
    /\ attrs = {"tracking_points"}

\* C9: every row of positions is a copy of the running position: a turn of the
\* loop, which updates current_position in place, leaves the rows appended
\* before it as they were.
C9_RowsAreCopies ==
    [][(pc = "calc" /\ pc' = "calc") =>
          \A k \in 1..Len(positions) :
              /\ k <= Len(positions')
              /\ PositionAt(k)' = PositionAt(k)]_vars
C9_Witness ==
    /\ pc = "calc"
    /\ Len(positions) = 3
    /\ PositionAt(1) = Origin
    /\ PositionAt(2) # Origin
    /\ PositionAt(3) # PositionAt(2)

\* C10: after a successful construction start is the first point, end the last
\* and num_points the length; no later call of get_path, calculate_path or
\* __repr__ changes tracking_points, start, end, num_points or path, and
\* get_path returns the path stored at construction.
C10_ReadOnlyAfterConstruction ==
    /\ [](Constructed =>
            /\ start = tracking_points.items[1]
            /\ end = tracking_points.items[Len(tracking_points.items)]
            /\ num_points = Len(tracking_points.items))
    /\ [][Constructed =>
            UNCHANGED <<tracking_points, start, end, num_points, path>>]_vars
    /\ [](ret.kind = "get_path" => ret.value = path)
C10_Witness ==
    /\ pc = "done" /\ caller = "user"
    /\ ret.kind = "get_path" /\ ret.value = path
    /\ num_points = 3 /\ start # end
    /\ path[3] # Origin

====
